---- MODULE Spec2Model ----
(***************************************************************************)
(* glit-core, user.rs: discovery of an account's repositories              *)
(* (UserFactory::create) and extraction of their commit data               *)
(* (User::committed_data).                                                 *)
(*                                                                         *)
(* Texts that the code parses are sequences of one-character strings; a    *)
(* URL is a record of its path segments and its query pairs; an HTTP       *)
(* response is a record of its status and of what the selectors find in    *)
(* its body.                                                               *)
(***************************************************************************)
EXTENDS Naturals, Integers, Sequences, FiniteSets, Bags, TLC

VARIABLES
    forge,          \* the forge: its repository count, its listing pages, its faults,
                    \* and the account URL of the configuration
    pc,             \* position of the main flow: create, then committed_data
    count_resp,     \* the response to the GET of the listing count page
    repo_count,     \* create: let repo_count
    pages_urls,     \* create: let mut pages_urls
    gets,           \* bag of the URLs a GET was sent to
    stream_next,    \* fetch_repository_list: index of the next URL stream::iter yields
    pool,           \* buffer_unordered: page indices of the futures it holds
    task,           \* the tokio task spawned for each page: none, running, ok, panicked
    content,        \* fetch_repository_list: the collected Vec<Vec<Url>>
    repo_urls,      \* fetch_repository_list: content flattened, the factory's inputs
    created,        \* join_all: the submitted factory calls that have run
    user,           \* the User create returned, or NoUser
    spawned,        \* committed_data: number of worker threads spawned
    worker,         \* each worker thread: running, sent, panicked
    channel,        \* the mpsc channel: messages sent and not yet received
    joined,         \* committed_data: number of handles joined
    tx_dropped,     \* committed_data: drop(tx) has run
    received,       \* number of messages the collector took from the channel
    result          \* the HashMap being collected, then returned

vars == <<forge, pc, count_resp, repo_count, pages_urls, gets, stream_next, pool, task, content,
          repo_urls, created, user, spawned, worker, channel, joined, tx_dropped,
          received, result>>

discoveryVars == <<count_resp, repo_count, pages_urls, gets, stream_next, pool, task, content,
                   repo_urls, created, user>>
extractionVars == <<spawned, worker, channel, joined, tx_dropped, received, result>>

-----------------------------------------------------------------------------
(* Bounds of the model *)

\* largest repository count the page-count specification draws
MaxRepoCount == 1100
\* most listing pages of an account in the whole-pipeline specification
MaxPages == 2
\* most repository anchors over all the listing pages of one forge
MaxRepos == 3
\* most listing pages of an account in the pool specification
MaxPoolPages == 9

-----------------------------------------------------------------------------
(* Program constants *)

NUMBER_OF_REPO_PER_PAGE == 30
BUFFER_UNORDERED == 8
\* u32::MAX, 4294967295, by its digits
U32_MAX == <<4, 2, 9, 4, 9, 6, 7, 2, 9, 5>>

-----------------------------------------------------------------------------
(* Texts *)

Digits == <<"0", "1", "2", "3", "4", "5", "6", "7", "8", "9">>

IsDigit(c) == \E i \in 1..10 : Digits[i] = c

DigitVal(c) == (CHOOSE i \in 1..10 : Digits[i] = c) - 1

IsWhitespace(c) == c \in {" ", "\n", "\t"}

\* {} of an unsigned integer: its decimal digits
RECURSIVE Decimal(_)
Decimal(n) == IF n < 10 THEN <<Digits[n + 1]>>
              ELSE Append(Decimal(n \div 10), Digits[(n % 10) + 1])

\* the forge writes a count with thousands separators: 1,100
RECURSIVE Grouped(_)
Grouped(n) ==
    IF n < 1000 THEN Decimal(n)
    ELSE LET low == n % 1000
             pad == IF low < 10 THEN <<"0", "0">> ELSE IF low < 100 THEN <<"0">> ELSE <<>>
         IN  Grouped(n \div 1000) \o <<",">> \o pad \o Decimal(low)

RECURSIVE TrimStart(_)
TrimStart(s) == IF s # <<>> /\ IsWhitespace(Head(s)) THEN TrimStart(Tail(s)) ELSE s

RECURSIVE TrimEnd(_)
TrimEnd(s) == IF s # <<>> /\ IsWhitespace(s[Len(s)])
              THEN TrimEnd(SubSeq(s, 1, Len(s) - 1)) ELSE s

\* str::trim
Trim(s) == TrimEnd(TrimStart(s))

\* str::replace(',', "")
RemoveCommas(s) == SelectSeq(s, LAMBDA c : c # ",")

ParseError == -1

RECURSIVE DigitsValue(_)
DigitsValue(s) == IF s = <<>> THEN 0
                  ELSE DigitsValue(SubSeq(s, 1, Len(s) - 1)) * 10 + DigitVal(s[Len(s)])

RECURSIVE StripZeros(_)
StripZeros(s) == IF Len(s) > 1 /\ Head(s) = "0" THEN StripZeros(Tail(s)) ELSE s

\* digits without leading zeros that spell a number above u32::MAX
ExceedsU32(d) ==
    \/ Len(d) > Len(U32_MAX)
    \/ /\ Len(d) = Len(U32_MAX)
       /\ \E i \in 1..Len(d) :
             /\ DigitVal(d[i]) > U32_MAX[i]
             /\ \A j \in 1..(i - 1) : DigitVal(d[j]) = U32_MAX[j]

\* str::parse::<u32>: an optional '+', then one digit or more, no overflow
ParseU32(s) ==
    LET d == IF s # <<>> /\ Head(s) = "+" THEN Tail(s) ELSE s
    IN  IF d = <<>> \/ (\E i \in 1..Len(d) : ~IsDigit(d[i])) THEN ParseError
        ELSE IF ExceedsU32(StripZeros(d)) THEN ParseError
        ELSE DigitsValue(d)

\* repositories_count, lines 60-64: the count read from the element's text
CountOfText(text) == ParseU32(RemoveCommas(Trim(text)))

-----------------------------------------------------------------------------
(* URLs *)

\* https://github.com/mthcht/
MthchtUrl == [path |-> <<"mthcht", "">>, query |-> <<>>]

\* the account URLs of the URL specification: /mthcht/, /mthcht and /
AccountUrls == {MthchtUrl, [path |-> <<"mthcht">>, query |-> <<>>],
                [path |-> <<"">>, query |-> <<>>]}

\* user_config.url
AccountUrl == forge.account

\* with_config: url with ?tab=repositories&type=source
ListingUrl(url) ==
    [url EXCEPT !.query = <<<<"tab", <<"repositories">>>>, <<"type", <<"source">>>>>>]

\* create, line 95: page_url with &page=i
PageUrl(page_url, i) == [page_url EXCEPT !.query = Append(@, <<"page", Decimal(i)>>)]

\* create, line 81: the first path segment
FirstSegment(url) == Head(url.path)

\* fetch_repository_list, line 137: the text after the last '/' of the href
RepoNameOfHref(href) == href[Len(href)]

\* Url::parse: the path segments that stand for "." and for ".."
SingleDot == {".", "%2e", "%2E"}

DoubleDot == {"..", ".%2e", ".%2E", "%2e.", "%2E.", "%2e%2e", "%2E%2E", "%2e%2E", "%2E%2e"}

\* Url::parse: a "." segment is dropped and a ".." segment drops the segment
\* before it; either one at the end of the path leaves an empty segment
RECURSIVE Normalize(_, _)
Normalize(done, rest) ==
    IF rest = <<>> THEN done
    ELSE LET seg == Head(rest)
             last == Len(rest) = 1
             kept == IF seg \in SingleDot THEN done
                     ELSE IF seg \in DoubleDot
                          THEN (IF done = <<>> THEN done ELSE SubSeq(done, 1, Len(done) - 1))
                          ELSE Append(done, seg)
         IN  Normalize(IF last /\ seg \in SingleDot \cup DoubleDot
                       THEN Append(kept, "") ELSE kept,
                       Tail(rest))

\* Url::parse of a path
UrlParse(path) == Normalize(<<>>, path)

\* fetch_repository_list, lines 139-141: base_url, then the name, then '/',
\* parsed as a URL
RepoUrl(base_url, repo_name) ==
    LET p == base_url.path
    IN  [base_url EXCEPT
            !.path = UrlParse(SubSeq(p, 1, Len(p) - 1) \o <<p[Len(p)] \o repo_name, "">>)]

-----------------------------------------------------------------------------
(* Page count *)

pages_count_nomod(n) == (n \div NUMBER_OF_REPO_PER_PAGE) + 1

pages_count(n) ==
    LET modulo == n % NUMBER_OF_REPO_PER_PAGE
    IN  IF modulo = 0 THEN n \div NUMBER_OF_REPO_PER_PAGE
        ELSE ((n - modulo) \div NUMBER_OF_REPO_PER_PAGE) + 1

-----------------------------------------------------------------------------
(* The forge *)

\* the repository names of the forge, in the order a forge first lists them
NameOrder == <<"a", "b", "c">>

Names == {NameOrder[i] : i \in 1..Len(NameOrder)}

\* the anchor of a repository row, href="/mthcht/<name>"
Anchor(name) == [has_href |-> TRUE, href |-> <<"", "mthcht", name>>]

\* an anchor with no href attribute
BareAnchor == [has_href |-> FALSE, href |-> <<>>]

RECURSIVE SeqsUpTo(_, _)
SeqsUpTo(S, n) ==
    IF n = 0 THEN {<<>>}
    ELSE LET shorter == SeqsUpTo(S, n - 1)
         IN  shorter \cup {Append(s, x) : s \in {t \in shorter : Len(t) = n - 1}, x \in S}

RECURSIVE Flatten(_)
Flatten(ss) == IF ss = <<>> THEN <<>> ELSE Head(ss) \o Flatten(Tail(ss))

\* k pages of rows, at most n rows in all
RECURSIVE PagesOfRows(_, _)
PagesOfRows(k, n) ==
    IF k = 0 THEN {<<>>}
    ELSE UNION {{<<first>> \o rest : rest \in PagesOfRows(k - 1, n - Len(first))} :
                  first \in SeqsUpTo({Anchor(x) : x \in Names}, n)}

\* names are interchangeable: a name is listed for the first time only after
\* the names before it in NameOrder
InOrderOfAppearance(rows) ==
    \A i \in 1..Len(rows) : \A j \in 2..Len(NameOrder) :
        rows[i] = Anchor(NameOrder[j]) => \E h \in 1..(i - 1) : rows[h] = Anchor(NameOrder[j - 1])

\* the listing pages of a forge: k pages of rows, at most MaxRepos rows in all
Listings(k) == {b \in PagesOfRows(k, MaxRepos) : InOrderOfAppearance(Flatten(b))}

\* what the anchor selector finds on listing page p
PageBody(p) == IF p \in DOMAIN forge.pages THEN forge.pages[p] ELSE <<>>

\* the text of the count element as the forge writes it
CountText(n) == <<"\n", " ">> \o Grouped(n) \o <<"\n">>

NoResponse == [sent |-> FALSE, status |-> "none", found |-> <<>>]

\* forge.faulty: the pages whose GET may fail or be answered with an error
\* page or a changed layout; 0 is the listing count page.
\* The answers to the GET of the listing count page; found: the inner_html of
\* every element the count selector matches
CountResponses ==
    (IF 0 \in forge.faulty THEN {NoResponse} ELSE {})
    \cup {[sent |-> TRUE, status |-> "200", found |-> <<CountText(forge.count)>>]}
    \cup IF 0 \in forge.faulty
         THEN {[sent |-> TRUE, status |-> s, found |-> f] :
                 s \in {"200", "500"},
                 f \in {<<>>, <<CountText(forge.count)>>, <<<<"1", "k">>>>}}
         ELSE {}

\* the answers to the GET of listing page p; found: every anchor the selector
\* matches
PageResponses(p) ==
    {[sent |-> TRUE, status |-> "200", found |-> PageBody(p)]}
    \cup IF p \in forge.faulty
         THEN {NoResponse,
               [sent |-> TRUE, status |-> "429", found |-> <<>>],
               [sent |-> TRUE, status |-> "200", found |-> <<BareAnchor>>]}
         ELSE {}

-----------------------------------------------------------------------------
(* Discovery: UserFactory::create *)

NoUser == [name |-> "", url |-> AccountUrl, repositories |-> <<>>, exists |-> FALSE]

NoTask == [state |-> "none", status |-> "none", urls |-> <<>>]

Panic == pc' = "panicked"

\* repositories_count, lines 47-64: the count, or ParseError where an unwrap panics
repositories_count(r) ==
    IF ~r.sent \/ r.found = <<>> THEN ParseError
    ELSE CountOfText(Head(r.found))

\* create, lines 83-84: the GET of the listing count page and its parse
RepositoriesCount ==
    /\ pc = "count"
    /\ gets' = gets (+) SetToBag({ListingUrl(AccountUrl)})
    /\ \E r \in CountResponses :
          LET n == repositories_count(r)
          IN  /\ count_resp' = r
              /\ IF n = ParseError
                 THEN Panic /\ UNCHANGED repo_count
                 ELSE pc' = "urls" /\ repo_count' = n
    /\ UNCHANGED <<forge, pages_urls, stream_next, pool, task, content, repo_urls,
                   created, user>>
    /\ UNCHANGED extractionVars

\* create, lines 94-97: one turn of the loop over 1..pages_count + 1
NextPageIndex_from0(urls) == Len(urls)

NextPageIndex(urls) == Len(urls) + 1

BuildPageUrl ==
    /\ pc = "urls"
    /\ Len(pages_urls) < pages_count(repo_count)
    /\ pages_urls' = Append(pages_urls,
                            PageUrl(ListingUrl(AccountUrl), NextPageIndex(pages_urls)))
    /\ UNCHANGED <<forge, pc, count_resp, repo_count, gets, stream_next, pool, task, content,
                   repo_urls, created, user>>
    /\ UNCHANGED extractionVars

\* create, line 100: the loop is over, fetch_repository_list is called
CallFetchRepositoryList ==
    /\ pc = "urls"
    /\ Len(pages_urls) = pages_count(repo_count)
    /\ pc' = "pages"
    /\ task' = [p \in 1..Len(pages_urls) |-> NoTask]
    /\ UNCHANGED <<forge, count_resp, repo_count, pages_urls, gets, stream_next, pool, content,
                   repo_urls, created, user>>
    /\ UNCHANGED extractionVars

-----------------------------------------------------------------------------
(* Discovery: UserFactory::fetch_repository_list, the page fetcher pool *)

Running == {p \in DOMAIN task : task[p].state = "running"}

\* buffer_unordered(8): the pool takes a future from the stream while it holds
\* fewer than 8
PoolHasRoom_unbounded == TRUE

PoolHasRoom == Cardinality(pool) < BUFFER_UNORDERED

StreamDone == stream_next > Len(pages_urls)

\* BufferUnordered::poll_next fills the pool before it polls any future of it
PoolFilled == ~PoolHasRoom \/ StreamDone

\* lines 132-143: the URL of every anchor, in document order
UrlsOfAnchors(found) ==
    [i \in 1..Len(found) |-> RepoUrl(AccountUrl, RepoNameOfHref(found[i].href))]

\* lines 123-145: what the task makes of the response, panicking on an unwrap
TaskOutcome(r) ==
    IF ~r.sent \/ (\E i \in 1..Len(r.found) : ~r.found[i].has_href)
    THEN [state |-> "panicked", status |-> "none", urls |-> <<>>]
    ELSE [state |-> "ok", status |-> r.status, urls |-> UrlsOfAnchors(r.found)]

\* lines 115-123, 150: the pool takes the next page URL from the stream and
\* polls its future, in the same poll_next: the future spawns its task, which
\* sends the GET
PoolFill ==
    /\ pc = "pages"
    /\ ~StreamDone
    /\ PoolHasRoom
    /\ pool' = pool \cup {stream_next}
    /\ stream_next' = stream_next + 1
    /\ task' = [task EXCEPT ![stream_next].state = "running"]
    /\ gets' = gets (+) SetToBag({pages_urls[stream_next]})
    /\ UNCHANGED <<forge, pc, count_resp, repo_count, pages_urls, content, repo_urls,
                   created, user>>
    /\ UNCHANGED extractionVars

FetchComplete_retry(p) ==
    /\ pc = "pages"
    /\ task[p].state = "running"
    /\ \E r \in PageResponses(p) :
          IF r = NoResponse /\ CopiesIn(pages_urls[p], gets) < 2
          THEN gets' = gets (+) SetToBag({pages_urls[p]}) /\ UNCHANGED task
          ELSE task' = [task EXCEPT ![p] = TaskOutcome(r)] /\ UNCHANGED gets
    /\ UNCHANGED <<forge, pc, count_resp, repo_count, pages_urls, stream_next,
                   pool, content, repo_urls, created, user>>
    /\ UNCHANGED extractionVars

\* lines 123-145: the response arrives and the task runs to its end
FetchComplete(p) ==
    /\ pc = "pages"
    /\ task[p].state = "running"
    /\ \E r \in PageResponses(p) : task' = [task EXCEPT ![p] = TaskOutcome(r)]
    /\ UNCHANGED <<forge, pc, count_resp, repo_count, pages_urls, gets, stream_next,
                   pool, content, repo_urls, created, user>>
    /\ UNCHANGED extractionVars

PoolCollect_latest(p) ==
    /\ pc = "pages"
    /\ PoolFilled
    /\ p \in pool
    /\ task[p].state = "ok"
    /\ pool' = pool \ {p}
    /\ content' = IF task[p].urls = <<>> THEN content ELSE <<task[p].urls>>
    /\ UNCHANGED <<forge, pc, count_resp, repo_count, pages_urls, gets, stream_next,
                   task, repo_urls, created, user>>
    /\ UNCHANGED extractionVars

\* lines 147-151: the future of a finished task is polled: its URLs join content
PoolCollect(p) ==
    /\ pc = "pages"
    /\ PoolFilled
    /\ p \in pool
    /\ task[p].state = "ok"
    /\ pool' = pool \ {p}
    /\ content' = Append(content, task[p].urls)
    /\ UNCHANGED <<forge, pc, count_resp, repo_count, pages_urls, gets, stream_next,
                   task, repo_urls, created, user>>
    /\ UNCHANGED extractionVars

\* line 148: the future of a panicked task is polled: unwrap panics, and the
\* pool is dropped with the flow
PoolPanic(p) ==
    /\ pc = "pages"
    /\ PoolFilled
    /\ p \in pool
    /\ task[p].state = "panicked"
    /\ Panic
    /\ pool' = {}
    /\ UNCHANGED <<forge, count_resp, repo_count, pages_urls, gets, stream_next, task,
                   content, repo_urls, created, user>>
    /\ UNCHANGED extractionVars

ContentCollected_dedup ==
    LET all == Flatten(content)
        RECURSIVE Firsts(_)
        Firsts(i) ==
            IF i > Len(all) THEN <<>>
            ELSE (IF \A j \in 1..(i - 1) : all[j] # all[i] THEN <<all[i]>> ELSE <<>>)
                     \o Firsts(i + 1)
    IN  /\ pc = "pages"
        /\ StreamDone
        /\ pool = {}
        /\ pc' = "factory"
        /\ repo_urls' = Firsts(1)
        /\ UNCHANGED <<forge, count_resp, repo_count, pages_urls, gets, stream_next, pool,
                       task, content, created, user>>
        /\ UNCHANGED extractionVars

\* lines 151-157: the stream is over: content is complete and is flattened
ContentCollected ==
    /\ pc = "pages"
    /\ StreamDone
    /\ pool = {}
    /\ pc' = "factory"
    /\ repo_urls' = Flatten(content)
    /\ UNCHANGED <<forge, count_resp, repo_count, pages_urls, gets, stream_next, pool,
                   task, content, created, user>>
    /\ UNCHANGED extractionVars

-----------------------------------------------------------------------------
(* Discovery: the Repository Factory and the Account *)

\* repo.rs (not in this source): the repository's name, the last path segment
\* of its URL that is not empty
RepositoryName(url) ==
    LET segs == SelectSeq(url.path, LAMBDA x : x # "")
    IN  IF segs = <<>> THEN "" ELSE segs[Len(segs)]

\* RepositoryFactory::with_config(repo_config).create()
Repository(url) == [url |-> url, name |-> RepositoryName(url)]

\* lines 158-168: join_all polls its futures in the order they were submitted;
\* a future has no await of its own and runs its factory call to the end on
\* its first poll; the call returns or panics
FactoryCall(i) ==
    /\ pc = "factory"
    /\ i \in (1..Len(repo_urls)) \ created
    /\ \A h \in 1..(i - 1) : h \in created
    /\ created' = created \cup {i}
    /\ \E ok \in BOOLEAN : IF ok THEN UNCHANGED pc ELSE Panic
    /\ UNCHANGED <<forge, count_resp, repo_count, pages_urls, gets, stream_next, pool,
                   task, content, repo_urls, user>>
    /\ UNCHANGED extractionVars

\* lines 102-106, 153-170: join_all is done, in submission order; create returns
CreateReturn_early ==
    /\ pc \in {"pages", "factory"}
    /\ pc' = "user"
    /\ user' = [name |-> FirstSegment(AccountUrl), url |-> AccountUrl, exists |-> TRUE,
                repositories |-> [i \in 1..Len(repo_urls) |-> Repository(repo_urls[i])]]
    /\ UNCHANGED <<forge, count_resp, repo_count, pages_urls, gets, stream_next, pool,
                   task, content, repo_urls, created>>
    /\ UNCHANGED extractionVars

CreateReturn_reversed ==
    /\ pc = "factory"
    /\ created = 1..Len(repo_urls)
    /\ pc' = "user"
    /\ user' = [name |-> FirstSegment(AccountUrl), url |-> AccountUrl, exists |-> TRUE,
                repositories |-> [i \in 1..Len(repo_urls) |->
                                     Repository(repo_urls[Len(repo_urls) + 1 - i])]]
    /\ UNCHANGED <<forge, count_resp, repo_count, pages_urls, gets, stream_next, pool,
                   task, content, repo_urls, created>>
    /\ UNCHANGED extractionVars

CreateReturn ==
    /\ pc = "factory"
    /\ created = 1..Len(repo_urls)
    /\ pc' = "user"
    /\ user' = [name |-> FirstSegment(AccountUrl), url |-> AccountUrl, exists |-> TRUE,
                repositories |-> [i \in 1..Len(repo_urls) |-> Repository(repo_urls[i])]]
    /\ UNCHANGED <<forge, count_resp, repo_count, pages_urls, gets, stream_next, pool,
                   task, content, repo_urls, created>>
    /\ UNCHANGED extractionVars

-----------------------------------------------------------------------------
(* Extraction: User::committed_data *)

EmptyMap == [k \in {} |-> TRUE]

\* Repository::committed_data (not in this source): the commit data the
\* extraction of worker i reads from the repository; two extractions of one
\* remote are two values
RepositoryCommitData(repository, i) == [commits_of |-> repository.url, extraction |-> i]

\* lines 189-194: the message worker i sends
Report(repository, i) ==
    [name |-> repository.name,
     data |-> [repositories_data |-> RepositoryCommitData(repository, i)]]

Insert_afresh(map, k, v) == [x \in {k} |-> v]

Insert_keepfirst(map, k, v) ==
    [x \in DOMAIN map \cup {k} |-> IF x \in DOMAIN map THEN map[x] ELSE v]

\* HashMap::insert
Insert(map, k, v) == [x \in DOMAIN map \cup {k} |-> IF x = k THEN v ELSE map[x]]

NumRepositories == Len(user.repositories)

\* the receiver lives until committed_data returns or unwinds
RxAlive == pc \in {"spawn", "collect"}

\* a sender is alive: the collector's own, or the clone of a running worker
SenderAlive == ~tx_dropped \/ (\E i \in 1..Len(worker) : worker[i] = "running")

\* lines 182-183: committed_data is called on the User create returned; the
\* locals of create are gone with its frame
CommittedData ==
    /\ pc = "user"
    /\ pc' = "spawn"
    /\ count_resp' = NoResponse
    /\ repo_count' = 0
    /\ pages_urls' = <<>>
    /\ stream_next' = 1
    /\ pool' = {}
    /\ task' = <<>>
    /\ content' = <<>>
    /\ repo_urls' = <<>>
    /\ created' = {}
    /\ UNCHANGED <<forge, gets, user>>
    /\ UNCHANGED extractionVars

SpawnWorker_capped ==
    /\ pc = "spawn"
    /\ spawned < NumRepositories
    /\ Cardinality({i \in 1..Len(worker) : worker[i] = "running"}) < 2
    /\ spawned' = spawned + 1
    /\ worker' = Append(worker, "running")
    /\ UNCHANGED <<forge, pc, channel, joined, tx_dropped, received, result>>
    /\ UNCHANGED discoveryVars

\* lines 185-198: one turn of the loop: a worker thread is spawned
SpawnWorker ==
    /\ pc = "spawn"
    /\ spawned < NumRepositories
    /\ spawned' = spawned + 1
    /\ worker' = Append(worker, "running")
    /\ UNCHANGED <<forge, pc, channel, joined, tx_dropped, received, result>>
    /\ UNCHANGED discoveryVars

\* lines 189-194: a worker's extraction ends, by returning or by panicking; it
\* sends its report, and panics on the unwrap when the receiver is gone
WorkerFinish_twice(i) ==
    /\ i \in 1..Len(worker)
    /\ worker[i] = "running"
    /\ channel' = channel \o <<Report(user.repositories[i], i), Report(user.repositories[i], i)>>
    /\ worker' = [worker EXCEPT ![i] = "sent"]
    /\ UNCHANGED <<forge, pc, spawned, joined, tx_dropped, received, result>>
    /\ UNCHANGED discoveryVars

WorkerFinish(i) ==
    /\ i \in 1..Len(worker)
    /\ worker[i] = "running"
    /\ \E extracted \in BOOLEAN :
          IF extracted /\ RxAlive
          THEN /\ channel' = Append(channel, Report(user.repositories[i], i))
               /\ worker' = [worker EXCEPT ![i] = "sent"]
          ELSE /\ worker' = [worker EXCEPT ![i] = "panicked"]
               /\ UNCHANGED channel
    /\ UNCHANGED <<forge, pc, spawned, joined, tx_dropped, received, result>>
    /\ UNCHANGED discoveryVars

\* the handle the collector joins next may be joined: its thread has ended
JoinReady_nowait == TRUE

JoinReady == worker[joined + 1] # "running"

\* lines 199-202: the next handle is joined; unwrap panics when its thread panicked
JoinWorker ==
    /\ pc = "spawn"
    /\ spawned = NumRepositories
    /\ joined < NumRepositories
    /\ JoinReady
    /\ IF worker[joined + 1] = "panicked"
       THEN Panic /\ UNCHANGED joined
       ELSE joined' = joined + 1 /\ UNCHANGED pc
    /\ UNCHANGED <<forge, spawned, worker, channel, tx_dropped, received, result>>
    /\ UNCHANGED discoveryVars

DropTx_kept ==
    /\ pc = "spawn"
    /\ spawned = NumRepositories
    /\ joined = NumRepositories
    /\ tx_dropped' = FALSE
    /\ pc' = "collect"
    /\ UNCHANGED <<forge, spawned, worker, channel, joined, received, result>>
    /\ UNCHANGED discoveryVars

\* line 204: every handle is joined; the collector drops its sender
DropTx ==
    /\ pc = "spawn"
    /\ spawned = NumRepositories
    /\ joined = NumRepositories
    /\ tx_dropped' = TRUE
    /\ pc' = "collect"
    /\ UNCHANGED <<forge, spawned, worker, channel, joined, received, result>>
    /\ UNCHANGED discoveryVars

\* line 206: the iterator takes the next message, collect inserts it
Receive ==
    /\ pc = "collect"
    /\ channel # <<>>
    /\ received' = Append(received, Head(channel))
    /\ channel' = Tail(channel)
    /\ result' = Insert(result, Head(channel).name, Head(channel).data)
    /\ UNCHANGED <<forge, pc, spawned, worker, joined, tx_dropped>>
    /\ UNCHANGED discoveryVars

Return_afterfirst ==
    /\ pc = "collect"
    /\ received # <<>>
    /\ channel = <<>>
    /\ ~SenderAlive
    /\ pc' = "done"
    /\ UNCHANGED forge
    /\ UNCHANGED discoveryVars
    /\ UNCHANGED extractionVars

\* line 206: the channel is empty and every sender is gone: the map is returned
Return ==
    /\ pc = "collect"
    /\ channel = <<>>
    /\ ~SenderAlive
    /\ pc' = "done"
    /\ UNCHANGED forge
    /\ UNCHANGED discoveryVars
    /\ UNCHANGED extractionVars

-----------------------------------------------------------------------------
(* Specifications *)

Start ==
    /\ pc = "count"
    /\ count_resp = NoResponse
    /\ repo_count = 0
    /\ pages_urls = <<>>
    /\ gets = EmptyBag
    /\ stream_next = 1
    /\ pool = {}
    /\ task = <<>>
    /\ content = <<>>
    /\ repo_urls = <<>>
    /\ created = {}
    /\ user = NoUser
    /\ spawned = 0
    /\ worker = <<>>
    /\ channel = <<>>
    /\ joined = 0
    /\ tx_dropped = FALSE
    /\ received = <<>>
    /\ result = EmptyMap

\* the least and the greatest count of an account of k listing pages
CountsOfPages(k) ==
    IF k = 0 THEN {0}
    ELSE {(k - 1) * NUMBER_OF_REPO_PER_PAGE + 1, k * NUMBER_OF_REPO_PER_PAGE}

\* the whole pipeline, on a small account: up to MaxPages listing pages, any of
\* them faulty, and the count of an account of that many pages
Init ==
    /\ forge \in UNION {{[count |-> n, pages |-> b, faulty |-> 0..k, account |-> MthchtUrl] :
                            n \in CountsOfPages(k), b \in Listings(k)} : k \in 0..MaxPages}
    /\ Start

NextCount == RepositoriesCount \/ BuildPageUrl \/ CallFetchRepositoryList

NextPool ==
    \/ PoolFill
    \/ \E p \in 1..Len(pages_urls) :
          FetchComplete(p) \/ PoolCollect(p) \/ PoolPanic(p)
    \/ ContentCollected

NextFactory == (\E i \in 1..Len(repo_urls) : FactoryCall(i)) \/ CreateReturn

NextExtraction ==
    \/ CommittedData
    \/ SpawnWorker
    \/ \E i \in 1..NumRepositories : WorkerFinish(i)
    \/ JoinWorker
    \/ DropTx
    \/ Receive
    \/ Return

Next == NextCount \/ NextPool \/ NextFactory \/ NextExtraction

Spec == Init /\ [][Next]_vars

\* the steps of the thread that runs committed_data
CollectorStep == SpawnWorker \/ JoinWorker \/ DropTx \/ Receive \/ Return

\* the threads are scheduled: the collector's thread takes its next step when
\* it has one, and every worker's extraction comes to its end
Scheduled ==
    /\ WF_vars(CollectorStep)
    /\ \A i \in 1..MaxRepos : WF_vars(WorkerFinish(i))

SpecScheduled == Spec /\ Scheduled

\* the page count and the page URLs, for every count up to MaxRepoCount
InitPages ==
    /\ forge \in {[count |-> n, pages |-> <<>>, faulty |-> {0}, account |-> MthchtUrl] :
                    n \in 0..MaxRepoCount}
    /\ Start

SpecPages == InitPages /\ [][NextCount]_vars

\* the page fetcher pool, on accounts of up to MaxPoolPages pages of no rows,
\* of which one at most is faulty, the first or the last
InitPool ==
    /\ forge \in {[count |-> p * NUMBER_OF_REPO_PER_PAGE, pages |-> <<>>, faulty |-> f,
                     account |-> MthchtUrl] :
                    p \in 0..MaxPoolPages, f \in {{}, {1}, {MaxPoolPages}}}
    /\ Start

NextDiscoveryOfNone == NextCount \/ NextPool \/ CreateReturn

SpecPool == InitPool /\ [][NextDiscoveryOfNone]_vars

\* the last path segments a row's href may end in: plain names, the empty
\* name of an href that ends in '/', and names Url::parse rewrites
HrefNames == {"a", "b", "a.", "", ".", "%2e", "..", "%2e%2E"}

\* the URLs: every account URL, and one listing page of two rows of any names
InitUrls ==
    /\ forge \in {[count |-> 1, pages |-> <<<<Anchor(x), Anchor(y)>>>>, faulty |-> {1},
                     account |-> u] : x \in HrefNames, y \in HrefNames, u \in AccountUrls}
    /\ Start

NextDiscovery == NextCount \/ NextPool \/ NextFactory

SpecUrls == InitUrls /\ [][NextDiscovery]_vars

-----------------------------------------------------------------------------
(* Claims *)

\* C1: during fetch_repository_list the page fetches that have started and
\* have not completed, counted in the spawned tasks, never number more than 8.
C1_InFlightAtMostEight == Cardinality(Running) <= BUFFER_UNORDERED

\* eight fetches in flight while a ninth page waits in the stream
C1_PoolSaturated ==
    /\ Cardinality(Running) = BUFFER_UNORDERED
    /\ ~StreamDone
    /\ pc = "pages"

RepositoryNames == {user.repositories[i].name : i \in 1..NumRepositories}

DistinctNames ==
    \A i, j \in 1..NumRepositories :
        user.repositories[i].name = user.repositories[j].name => i = j

\* C2: when the repositories of the Account have distinct names and every
\* extraction succeeds, the mapping committed_data returns has exactly the
\* repository names as keys, each mapped to the data of that repository.
C2_MappingComplete ==
    (pc = "done" /\ DistinctNames) =>
        /\ DOMAIN result = RepositoryNames
        /\ \A i \in 1..NumRepositories :
              result[user.repositories[i].name]
                  = [repositories_data |->
                        [commits_of |-> user.repositories[i].url, extraction |-> i]]

\* three repositories of distinct names, reported in another order than spawned
C2_ReturnedOutOfOrder ==
    /\ pc = "done"
    /\ DistinctNames
    /\ NumRepositories = 3
    /\ received[1].name = user.repositories[3].name

Sent == {i \in 1..Len(worker) : worker[i] = "sent"}

\* C3: every worker that ended its extraction sent one report and no worker
\* sent two; a mapping is returned after as many reports were received as the
\* Account has repositories.
C3_OneReportPerRepository ==
    /\ Len(received) + Len(channel) = Cardinality(Sent)
    /\ pc = "done" => Len(received) = NumRepositories

\* a mapping returned from the reports of two repositories or more
C3_AllReportsReceived == pc = "done" /\ NumRepositories >= 2 /\ Len(received) >= 2

\* C4: nothing is inserted into the mapping and no mapping is returned before
\* every worker thread has ended with its report sent.
C4_NoPartialResult ==
    (received # <<>> \/ result # EmptyMap \/ pc = "done") =>
        /\ spawned = NumRepositories
        /\ \A i \in 1..NumRepositories : worker[i] = "sent"
        /\ Len(received) + Len(channel) = NumRepositories

\* the collector in the middle of the reports: one inserted, one still queued
C4_Collecting == pc = "collect" /\ received # <<>> /\ channel # <<>>

\* C5: when one repository's extraction fails and the others succeed,
\* committed_data still returns a mapping that holds the others' data.
C5_FailureIsSkipped ==
    (user.exists /\ pc \in {"done", "panicked"}) =>
        /\ pc = "done"
        /\ \A i \in Sent : /\ user.repositories[i].name \in DOMAIN result
                           /\ result[user.repositories[i].name]
                                  = Report(user.repositories[i], i).data

CountFetched == pc \in {"urls", "pages", "factory", "user"}

\* C6: pages_count(repo_count) is the ceiling of repo_count / 30: the least
\* number of pages of 30 that hold repo_count repositories.
C6_PagesCountIsCeiling ==
    CountFetched =>
        LET k == pages_count(repo_count)
        IN  /\ k * NUMBER_OF_REPO_PER_PAGE >= repo_count
            /\ k = 0 \/ (k - 1) * NUMBER_OF_REPO_PER_PAGE < repo_count
            /\ repo_count = NUMBER_OF_REPO_PER_PAGE => k = 1
            /\ repo_count = NUMBER_OF_REPO_PER_PAGE + 1 => k = 2
            /\ repo_count = 2 * NUMBER_OF_REPO_PER_PAGE => k = 2

\* a count that is a multiple of 30, beyond the thousands separator
C6_ExactMultiple ==
    /\ CountFetched
    /\ repo_count > 1000
    /\ repo_count % NUMBER_OF_REPO_PER_PAGE = 0

IsPageUrl(url, i) ==
    /\ url.path = AccountUrl.path
    /\ Len(url.query) = 3
    /\ url.query[1] = <<"tab", <<"repositories">>>>
    /\ url.query[2] = <<"type", <<"source">>>>
    /\ url.query[3][1] = "page"
    /\ ParseU32(url.query[3][2]) = i

\* C7: create builds one page URL for each index of 1..=page_count, in
\* ascending order, each the listing URL with that index as its page parameter.
C7_PageUrlsOneToCount ==
    /\ pc = "urls" => Len(pages_urls) <= pages_count(repo_count)
    /\ pc \in {"pages", "factory", "user"} => Len(pages_urls) = pages_count(repo_count)
    /\ \A i \in 1..Len(pages_urls) : IsPageUrl(pages_urls[i], i)

\* the URLs of an account of ten pages or more are built
C7_TenPagesBuilt == pc = "pages" /\ Len(pages_urls) >= 10

\* C8: the User exists only once every page fetch and every factory call of
\* the discovery has completed.
C8_AccountAfterBarrier ==
    user.exists =>
        /\ StreamDone
        /\ pool = {}
        /\ Len(task) = Len(pages_urls)
        /\ \A p \in 1..Len(task) : task[p].state = "ok"
        /\ Len(content) = Len(pages_urls)
        /\ created = 1..Len(repo_urls)
        /\ pc = "user" => Len(user.repositories) = Len(repo_urls)

\* a User of two repositories or more, found on two pages
C8_AccountAssembled ==
    /\ user.exists
    /\ Len(pages_urls) = 2
    /\ Len(content[1]) >= 1
    /\ Len(content[2]) >= 1

CountFetchFailed ==
    /\ pc \in {"urls", "pages", "factory", "user", "panicked"}
    /\ ~user.exists \/ pc = "user"
    /\ \/ ~count_resp.sent
       \/ count_resp.status # "200"
       \/ count_resp.found = <<>>
       \/ CountOfText(Head(count_resp.found)) = ParseError

\* C9: when the listing count fetch fails, by transport or status, by a
\* missing count element or by a count that is no integer, no page fetch is
\* started, no factory call is made and no User is produced.
C9_CountFailureAborts ==
    CountFetchFailed =>
        /\ pc = "panicked"
        /\ pages_urls = <<>>
        /\ BagCardinality(gets) = 1
        /\ created = {}
        /\ ~user.exists

PageFetchFailed(p) == task[p].state = "panicked" \/ task[p].status \notin {"none", "200"}

\* C10: when any page fetch fails, create produces no User.
C10_PageFailureAborts ==
    (\E p \in 1..Len(task) : PageFetchFailed(p)) => ~user.exists

\* the names the task derives from the rows of listing page p
NamesOfPage(p) == [i \in 1..Len(PageBody(p)) |-> RepoNameOfHref(PageBody(p)[i].href)]

PageFetched(p) ==
    /\ p \in 1..Len(task)
    /\ task[p].state = "ok"
    /\ task[p].status = "200"
    /\ Len(task[p].urls) = Len(PageBody(p))

\* C15: for a fixed account URL, two different repository names derived from
\* anchors give two different repository URLs.
C15_RepoUrlInjective ==
    \A p \in 1..Len(task) :
        PageFetched(p) =>
            \A i, j \in 1..Len(task[p].urls) :
                NamesOfPage(p)[i] # NamesOfPage(p)[j] => task[p].urls[i] # task[p].urls[j]

\* C18: the name of every User create produces is the first path segment of
\* the account URL, and is not empty.
C18_NameIsFirstSegment ==
    user.exists => user.name = Head(forge.account.path) /\ user.name # ""

\* the place in the received reports of the last one for name k
LastReportOf(k) ==
    CHOOSE j \in 1..Len(received) :
        /\ received[j].name = k
        /\ \A l \in (j + 1)..Len(received) : received[l].name # k

\* C16: the mapping committed_data returns has one entry for each distinct
\* repository name, and the value of a name is the data of the report for that
\* name the collector received last.
C16_LastWriteWins ==
    pc = "done" =>
        /\ DOMAIN result = RepositoryNames
        /\ Cardinality(DOMAIN result) = Cardinality(RepositoryNames)
        /\ \A k \in DOMAIN result : result[k] = received[LastReportOf(k)].data

\* two repositories of one name, and the mapping holds the data of the one
\* spawned first, whose report came last
C16_EarlierHandleReportedLast ==
    /\ pc = "done"
    /\ \E i, j \in 1..NumRepositories :
          /\ i < j
          /\ user.repositories[i].name = user.repositories[j].name
          /\ result[user.repositories[i].name].repositories_data.extraction = i

RunningWorkers == {i \in 1..Len(worker) : worker[i] = "running"}

\* C17: committed_data starts a worker for every repository before it waits
\* on any of them, and the start of a worker never waits for another worker
\* to finish: while repositories are left, the next worker can be started
\* whatever the workers started before are doing.
C17_NoConcurrencyCap ==
    /\ (pc = "spawn" /\ spawned < NumRepositories) => ENABLED SpawnWorker
    /\ (pc = "spawn" /\ spawned < NumRepositories) => joined = 0
    /\ joined > 0 => spawned = NumRepositories

\* all the extractions of an Account of three repositories run at one time
C17_AllRunning ==
    /\ pc = "spawn"
    /\ NumRepositories = MaxRepos
    /\ RunningWorkers = 1..NumRepositories

\* the count fetch reported 0 repositories
ReportedNone == forge.count = 0 /\ pc \notin {"count", "panicked"}

\* C20: when the count fetch reports 0 repositories, create fetches no page,
\* calls the Repository Factory for nothing and returns a User of no
\* repository; committed_data on that User starts no worker, is never left
\* waiting, and returns the empty mapping.
C20_EmptyAccount ==
    ReportedNone =>
        /\ BagToSet(gets) = {ListingUrl(AccountUrl)}
        /\ pages_urls = <<>> /\ task = <<>> /\ pool = {}
        /\ repo_urls = <<>> /\ created = {}
        /\ user.exists => user.repositories = <<>>
        /\ spawned = 0 /\ worker = <<>> /\ channel = <<>> /\ received = <<>>
        /\ pc # "done" => ENABLED Next
        /\ pc = "collect" => ENABLED Return
        /\ pc = "done" => user.exists /\ result = EmptyMap

\* the empty mapping returned for the User of an account of no repository
C20_EmptyMappingReturned == ReportedNone /\ pc = "done" /\ result = EmptyMap

\* C14: no URL is sent a GET twice, whether its fetch failed or not; when
\* create returns, one GET was sent for the listing count page and one for each
\* page URL 1..pages_count, and no other.
C14_NoFetchRepeated ==
    /\ \A u \in BagToSet(gets) : CopiesIn(u, gets) = 1
    /\ pc = "user" =>
          /\ Len(pages_urls) = pages_count(repo_count)
          /\ \A i \in 1..Len(pages_urls) : IsPageUrl(pages_urls[i], i)
          /\ BagToSet(gets) = {ListingUrl(AccountUrl)}
                                  \cup {pages_urls[i] : i \in 1..Len(pages_urls)}
          /\ BagCardinality(gets) = 1 + pages_count(repo_count)

\* create returned after the count page and two listing pages were fetched
C14_ThreeFetches == pc = "user" /\ pages_count(repo_count) = 2 /\ BagCardinality(gets) = 3

\* how many times x is in seq
Occurrences(seq, x) == Cardinality({i \in 1..Len(seq) : seq[i] = x})

\* the sum of f[1..n]
RECURSIVE SumTo(_, _)
SumTo(f, n) == IF n = 0 THEN 0 ELSE f[n] + SumTo(f, n - 1)

\* the repository anchors of page p's response, as the task extracted them
ExtractedOfPage == [p \in 1..Len(task) |-> Len(task[p].urls)]

\* C13: the URLs handed to the Repository Factory are every page's extracted
\* URLs, none removed and none merged: as many as the fetched pages have
\* repository anchors, each URL as often as the pages hold it; each gets its
\* own factory call and its own handle in the Account.
C13_NothingRemovedOrMerged ==
    /\ pc \in {"factory", "user"} =>
          /\ \A p \in 1..Len(task) :
                /\ task[p].state = "ok"
                /\ task[p].status = "200" => Len(task[p].urls) = Len(PageBody(p))
          /\ Len(repo_urls) = SumTo(ExtractedOfPage, Len(task))
          /\ \A q \in 1..Len(task) : \A k \in 1..Len(task[q].urls) :
                LET u == task[q].urls[k]
                IN  Occurrences(repo_urls, u)
                        = SumTo([p \in 1..Len(task) |-> Occurrences(task[p].urls, u)],
                                Len(task))
          /\ created \subseteq 1..Len(repo_urls)
    /\ pc = "user" =>
          /\ created = 1..Len(repo_urls)
          /\ Len(user.repositories) = Len(repo_urls)
          /\ \A i \in 1..Len(repo_urls) : user.repositories[i].url = repo_urls[i]

\* a name that two listing pages hold has two handles in the Account
C13_NameOnTwoPages ==
    /\ pc = "user"
    /\ Len(task) = 2
    /\ \E i \in 1..Len(task[1].urls) : \E j \in 1..Len(task[2].urls) :
          /\ task[1].urls[i] = task[2].urls[j]
          /\ Occurrences([h \in 1..NumRepositories |-> user.repositories[h].url],
                         task[1].urls[i]) >= 2

\* the orders the pages' futures may complete in
PageOrders ==
    {f \in [1..Len(task) -> 1..Len(task)] : \A i, j \in 1..Len(task) : f[i] = f[j] => i = j}

\* how many URLs the pages that completed before the j-th one gave
UrlsBefore(j) == SumTo([c \in 1..Len(content) |-> Len(content[c])], j - 1)

\* C19: the repositories of the Account are ordered by page completion, then
\* by anchor position: every page's handles are contiguous and in the order of
\* the page's anchors, the pages follow each other in the order their futures
\* completed, every page fetch has finished before the first Repository Factory
\* call, and the handles are stored in the order the URLs were submitted.
C19_OrderedByCompletion ==
    /\ pc \in {"factory", "user"} =>
          /\ pool = {}
          /\ \A p \in 1..Len(task) : task[p].state = "ok"
          /\ \A p \in 1..Len(task) :
                PageFetched(p) =>
                    \A k \in 1..Len(PageBody(p)) :
                        task[p].urls[k]
                            = RepoUrl(AccountUrl, RepoNameOfHref(PageBody(p)[k].href))
          /\ \E f \in PageOrders : content = [j \in 1..Len(task) |-> task[f[j]].urls]
          /\ Len(repo_urls) = UrlsBefore(Len(content) + 1)
          /\ \A j \in 1..Len(content) : \A k \in 1..Len(content[j]) :
                repo_urls[UrlsBefore(j) + k] = content[j][k]
    /\ pc = "user" =>
          /\ Len(user.repositories) = Len(repo_urls)
          /\ \A i \in 1..Len(repo_urls) : user.repositories[i] = Repository(repo_urls[i])

\* the second page completed first: its two handles come first, in the order
\* of its anchors, and the first page's handle follows
C19_SecondPageFirst ==
    /\ pc = "user"
    /\ Len(task) = 2
    /\ Len(task[1].urls) = 1
    /\ Len(task[2].urls) = 2
    /\ task[2].urls[1] # task[2].urls[2]
    /\ task[1].urls[1] \notin {task[2].urls[1], task[2].urls[2]}
    /\ [i \in 1..3 |-> user.repositories[i].url] = task[2].urls \o task[1].urls

\* the repository URLs of the rows of listing page p, in the order of the rows
UrlsOfPage(p) ==
    [k \in 1..Len(PageBody(p)) |-> RepoUrl(AccountUrl, RepoNameOfHref(PageBody(p)[k].href))]

\* the URLs of the Account's repositories, in the order of the Account
UrlsOfUser == [i \in 1..NumRepositories |-> user.repositories[i].url]

\* create returned, and every listing page was answered with its contents
DiscoveredAll == pc = "user" /\ \A p \in 1..Len(task) : PageFetched(p)

\* C11: two runs of create against one unchanged forge give the same ordered
\* sequence of repository URLs, whatever order the page fetches complete in.
\* The run whose pages complete in page order gives the pages' URLs in page
\* order, so the runs all agree exactly when every run gives that sequence.
C11_Idempotent ==
    DiscoveredAll => UrlsOfUser = Flatten([p \in 1..Len(task) |-> UrlsOfPage(p)])

\* C11, amended: two runs of create against one unchanged forge give the same
\* repository URLs, each as often, and each page's URLs together and in the
\* order of the page; the sequence is the pages' URL lists one after another
\* in some order of the pages, the order being that of the run's completions.
C11_SameUrlsUpToPageOrder ==
    DiscoveredAll =>
        /\ \E f \in PageOrders :
              UrlsOfUser = Flatten([j \in 1..Len(task) |-> UrlsOfPage(f[j])])
        /\ \A q \in 1..Len(task) : \A k \in 1..Len(UrlsOfPage(q)) :
              LET u == UrlsOfPage(q)[k]
              IN  Occurrences(UrlsOfUser, u)
                      = SumTo([p \in 1..Len(task) |-> Occurrences(UrlsOfPage(p), u)],
                              Len(task))

\* a run whose sequence is not the one of the run in page order: the second
\* page completed first
C11_OtherOrderThanPages ==
    /\ DiscoveredAll
    /\ Len(task) = 2
    /\ UrlsOfUser = UrlsOfPage(2) \o UrlsOfPage(1)
    /\ UrlsOfUser # UrlsOfPage(1) \o UrlsOfPage(2)

\* C12: when every extraction comes to its end, committed_data comes to its
\* end under every interleaving, returning the mapping or failing: no send of
\* a worker waits, no join and no receive of the collector waits for ever.
C12_ExtractionTerminates ==
    /\ [](\A i \in RunningWorkers : ENABLED WorkerFinish(i))
    /\ (pc = "spawn") ~> (pc \in {"done", "panicked"})

\* the collector has dropped its sender and is left with the closed, drained
\* channel of three workers
C12_ChannelClosedAndDrained ==
    /\ pc = "collect"
    /\ tx_dropped
    /\ NumRepositories = MaxRepos
    /\ channel = <<>>
    /\ Len(received) = NumRepositories

====
